---- MODULE Spec2Model ----
(***************************************************************************)
(* tryCatch.js: the two wrappers of src/src/tryCatch.ts, tryCatchSync and  *)
(* tryCatch, and the Result records they build, run by a JavaScript host:  *)
(* one call stack (run to completion), promises with reaction lists, and   *)
(* a FIFO microtask queue that resumes suspended async functions.          *)
(***************************************************************************)
EXTENDS Naturals, Sequences, FiniteSets

\* ------------------------------------------------------------------ bounds
\* Number of tryCatch calls one behaviour makes.
MaxCalls == 2

\* ------------------------------------------------------------- JS values
\* `undefined` and `null` are two different values of the host language.
UNDEFINED == [kind |-> "undefined"]
NULL == [kind |-> "null"]

\* The values a computation returns, resolves with, throws or rejects with:
\* the two empty values, a number, a string, an Error instance, a plain object.
Values ==
  { UNDEFINED, NULL,
    [kind |-> "number", v |-> 42],
    [kind |-> "string", v |-> "bad"],
    [kind |-> "Error", message |-> "net down"],
    [kind |-> "object", ref |-> 1] }

\* The cause a cancelled asynchronous computation rejects with.
AbortError == [kind |-> "Error", name |-> "AbortError", message |-> "aborted"]

\* The promises the caller holds and passes to tryCatch.
Promises == {"p", "q"}

Calls == 1..MaxCalls

\* ------------------------------------------------------------ Result model
\* Variant: success computed from the truthiness of the payload.
SuccessIfTruthy(result) ==
  [data |-> result, error |-> NULL, success |-> result \notin {UNDEFINED, NULL}]

\* interface Success<T>: data is the payload, error is null, success is true.
Success(result) == [data |-> result, error |-> NULL, success |-> TRUE]

\* Variant: the cause is stored in both payload fields.
FailureKeepsData(error) == [data |-> error, error |-> error, success |-> FALSE]

\* interface Failure<E>: data is null, error is the payload, success is false.
Failure(error) == [data |-> NULL, error |-> error, success |-> FALSE]

\* A callback of type () => T: it either returns a value or throws one.
Callbacks == [outcome : {"return", "throw"}, value : Values]

\* A callback with side effects: it writes "before" to the program's state,
\* then returns or throws, and writes "after" only when it gets that far.
WritingCallbacks == [outcome : {"return", "throw"}, value : Values, writes : {TRUE}]

\* The program's state h after one invocation of cb.
EffectOf(cb, h) ==
  IF "writes" \notin DOMAIN cb THEN h
  ELSE IF cb.outcome = "return" THEN h \cup {"before", "after"}
  ELSE h \cup {"before"}

\* Calling callback(): the completion of the call expression.
Invoke(cb) ==
  IF cb.outcome = "return"
    THEN [type |-> "normal", value |-> cb.value]
    ELSE [type |-> "throw", value |-> cb.value]

VARIABLES
  syncPc,       \* where the current tryCatchSync call stands
  callback,     \* the callback of the current tryCatchSync call
  completion,   \* completion of callback() inside the try block
  syncOutcome,  \* how tryCatchSync ended: a returned Result or a thrown value
  invocations,  \* times the callback was invoked by the current call
  heap,         \* the program's state outside the wrapper: the writes made so far
  heapAtCall,   \* heap as it was when the current tryCatchSync call started
  promises,     \* [[PromiseState]] and [[PromiseResult]] of each passed promise
  reactions,    \* per promise, the suspended tryCatch calls awaiting it, in order
  handled,      \* [[PromiseIsHandled]]: a handler was attached to the promise
  jobs,         \* the microtask queue
  calls         \* per tryCatch call: position, awaited promise, returned promise

vars ==
  << syncPc, callback, completion, syncOutcome, invocations, heap, heapAtCall,
     promises, reactions, handled, jobs, calls >>

syncVars == << syncPc, callback, completion, syncOutcome, invocations, heap, heapAtCall >>
asyncVars == << promises, reactions, handled, jobs, calls >>

NoCompletion == [type |-> "none", value |-> UNDEFINED]
NoOutcome == [kind |-> "none", value |-> UNDEFINED]
Pending == [state |-> "pending", value |-> UNDEFINED]
\* A promise passed as the argument of tryCatch.
PromiseArg(p) == [kind |-> "promise", ref |-> p]

\* The promise returned by tryCatch call i, passed on as an argument.
ReturnedArg(i) == [kind |-> "returned", call |-> i]

\* What the README's inferred-types example passes instead of a promise: an
\* async function, whose body would throw Error("Asynchronous operation
\* failed") or return "Asynchronous success!" if it were called.
Factories == { [kind |-> "function", body |-> b] : b \in {"throws", "returns"} }

\* A callback that returns one of the promises instead of a plain value.
PromiseCallbacks == { [outcome |-> "return", value |-> PromiseArg(p)] : p \in Promises }

NotCalled == [pc |-> "idle", promise |-> "p", arg |-> PromiseArg("p"), returned |-> Pending]

Init ==
  /\ syncPc = "idle"
  /\ callback = [outcome |-> "return", value |-> UNDEFINED]
  /\ completion = NoCompletion
  /\ syncOutcome = NoOutcome
  /\ invocations = 0
  /\ heap = {}
  /\ heapAtCall = {}
  /\ promises = [p \in Promises |-> Pending]
  /\ reactions = [p \in Promises |-> << >>]
  /\ handled = [p \in Promises |-> FALSE]
  /\ jobs = << >>
  /\ calls = [i \in Calls |-> NotCalled]

\* ----------------------------------------------------------- tryCatchSync
\* Variant: only Error instances are caught, other thrown values propagate.
SyncCaughtOnlyErrors(c) == c.kind = "Error"

\* catch (error): the clause has no filter, it binds whatever was thrown.
SyncCaught(c) == TRUE

\* Variant: the function is declared async: what the caller gets back is a
\* promise of the Result, still pending when the call returns.
tryCatchSyncReturnAsync(result) == [state |-> "pending", value |-> UNDEFINED]

\* Variant: a returned promise is looked into, and its rejection reported as
\* a Failure.
tryCatchSyncReturnUnwraps(result) ==
  IF result.kind = "promise" /\ promises[result.ref].state = "rejected"
    THEN Failure(promises[result.ref].value)
    ELSE Success(result)

\* Variant: error left undefined instead of null.
tryCatchSyncReturnErrorUndefined(result) ==
  [data |-> result, error |-> UNDEFINED, success |-> TRUE]

\* Variant: data: result ?? null.
tryCatchSyncReturnCoalesced(result) ==
  [data |-> IF result = UNDEFINED THEN NULL ELSE result, error |-> NULL, success |-> TRUE]

\* return { data: result, error: null, success: true }
tryCatchSyncReturn(result) == Success(result)

\* Variant: a thrown value that is no Error instance is wrapped into one.
tryCatchSyncCatchWrapped(error) ==
  [data |-> NULL,
   error |-> IF error.kind = "Error" THEN error ELSE [kind |-> "Error", message |-> "wrapped"],
   success |-> FALSE]

\* return { data: null, error: error as E, success: false }
tryCatchSyncCatch(error) == Failure(error)

\* Variant: the callback is tried a second time after a first throw.
AfterInvokeRetry(comp) ==
  IF comp.type = "normal" THEN "atReturn"
  ELSE IF invocations = 0 THEN "inTry" ELSE "atCatch"

\* Where control goes once callback() has completed: to the return statement
\* of the try block, or to the catch clause. There is no loop.
AfterInvoke(comp) == IF comp.type = "normal" THEN "atReturn" ELSE "atCatch"

\* Variant: the catch block undoes what the callback did before it threw.
CatchEffectRollback(h) == heapAtCall

\* The catch block writes nothing but its own return value: the program's
\* state stays as the callback left it.
CatchEffect(h) == h

\* The call stack is empty: no tryCatchSync frame is active.
StackEmpty == syncPc \in {"idle", "returned", "threw"}

\* A whole tryCatchSync(cb) call as its caller sees it: the Result it returns
\* or the value it throws. The body is followed statement by statement, as
\* the steps below do for the call in progress.
tryCatchSyncOutcome(cb) ==
  LET comp == Invoke(cb) IN
    IF AfterInvoke(comp) = "atReturn"
      THEN [kind |-> "return", value |-> tryCatchSyncReturn(comp.value)]
      ELSE IF SyncCaught(comp.value)
        THEN [kind |-> "return", value |-> tryCatchSyncCatch(comp.value)]
        ELSE [kind |-> "throw", value |-> comp.value]

\* The callback () => tryCatchSync(f): it returns what the inner call
\* returns and throws what the inner call throws.
WrapperCallback(f) ==
  [outcome |-> IF tryCatchSyncOutcome(f).kind = "return" THEN "return" ELSE "throw",
   value |-> tryCatchSyncOutcome(f).value,
   inner |-> f]

NestedCallbacks == { WrapperCallback(f) : f \in Callbacks }

\* tryCatchSync(cb) is called: control enters the try block.
SyncCall(cb) ==
  /\ syncPc = "idle"
  /\ syncPc' = "inTry"
  /\ callback' = cb
  /\ completion' = NoCompletion
  /\ syncOutcome' = NoOutcome
  /\ invocations' = 0
  /\ heapAtCall' = heap
  /\ UNCHANGED heap
  /\ UNCHANGED asyncVars

\* const result = callback()
SyncInvoke ==
  /\ syncPc = "inTry"
  /\ completion' = Invoke(callback)
  /\ invocations' = invocations + 1
  /\ syncPc' = AfterInvoke(Invoke(callback))
  /\ heap' = EffectOf(callback, heap)
  /\ UNCHANGED << callback, syncOutcome, heapAtCall >>
  /\ UNCHANGED asyncVars

\* The return statement of the try block.
SyncReturn ==
  /\ syncPc = "atReturn"
  /\ syncOutcome' = [kind |-> "return", value |-> tryCatchSyncReturn(completion.value)]
  /\ syncPc' = "returned"
  /\ UNCHANGED << callback, completion, invocations, heap, heapAtCall >>
  /\ UNCHANGED asyncVars

\* The catch clause and its return statement; a value the clause does not
\* catch propagates to the caller of tryCatchSync.
SyncCatch ==
  /\ syncPc = "atCatch"
  /\ IF SyncCaught(completion.value)
       THEN /\ syncOutcome' = [kind |-> "return", value |-> tryCatchSyncCatch(completion.value)]
            /\ syncPc' = "returned"
       ELSE /\ syncOutcome' = [kind |-> "throw", value |-> completion.value]
            /\ syncPc' = "threw"
  /\ heap' = CatchEffect(heap)
  /\ UNCHANGED << callback, completion, invocations, heapAtCall >>
  /\ UNCHANGED asyncVars

\* The returned Result is a plain object literal: it is not frozen and its
\* fields are not read-only.
Frozen(r) == FALSE

\* The field assignments a caller can make on a Result it holds.
Writes ==
  { << f, v >> : f \in {"data", "error"}, v \in Values }
    \cup { << "success", b >> : b \in BOOLEAN }

\* The caller assigns v to a field of the Result it was returned:
\* result.data = v, result.error = v or result.success = v.
CallerWrite(field, v) ==
  /\ syncPc = "returned"
  /\ syncOutcome.kind = "return"
  /\ syncOutcome' = IF Frozen(syncOutcome.value)
                      THEN syncOutcome
                      ELSE [syncOutcome EXCEPT !.value[field] = v]
  /\ UNCHANGED << syncPc, callback, completion, invocations, heap, heapAtCall >>
  /\ UNCHANGED asyncVars

\* The caller is done with the Result (or with the exception) and drops it.
SyncDiscard ==
  /\ syncPc \in {"returned", "threw"}
  /\ syncPc' = "idle"
  /\ callback' = [outcome |-> "return", value |-> UNDEFINED]
  /\ completion' = NoCompletion
  /\ syncOutcome' = NoOutcome
  /\ invocations' = 0
  /\ heapAtCall' = heap
  /\ UNCHANGED heap
  /\ UNCHANGED asyncVars

\* The caller invokes cb() itself, without the wrapper: the reference for
\* the side effects of one invocation.
DirectCall(cb) ==
  /\ syncPc = "idle"
  /\ heap' = EffectOf(cb, heap)
  /\ heapAtCall' = heap'
  /\ UNCHANGED << syncPc, callback, completion, syncOutcome, invocations >>
  /\ UNCHANGED asyncVars

\* --------------------------------------------------------------- promises
\* A reaction job of call i for a promise settled as `state` with `value`.
Job(i, state, value) == [call |-> i, kind |-> state, value |-> value]

RECURSIVE JobsFor(_, _, _)
JobsFor(rs, state, value) ==
  IF rs = << >> THEN << >>
  ELSE << Job(Head(rs), state, value) >> \o JobsFor(Tail(rs), state, value)

\* resolve(v) is called by the producer of the pending promise p: p becomes
\* fulfilled and its reactions are queued as microtasks in registration order.
Resolve(p, v) ==
  /\ StackEmpty
  /\ promises[p].state = "pending"
  /\ promises' = [promises EXCEPT ![p] = [state |-> "fulfilled", value |-> v]]
  /\ jobs' = jobs \o JobsFor(reactions[p], "fulfilled", v)
  /\ reactions' = [reactions EXCEPT ![p] = << >>]
  /\ UNCHANGED << calls, handled >>
  /\ UNCHANGED syncVars

\* reject(c) is called by the producer of the pending promise p.
Reject(p, c) ==
  /\ StackEmpty
  /\ promises[p].state = "pending"
  /\ promises' = [promises EXCEPT ![p] = [state |-> "rejected", value |-> c]]
  /\ jobs' = jobs \o JobsFor(reactions[p], "rejected", c)
  /\ reactions' = [reactions EXCEPT ![p] = << >>]
  /\ UNCHANGED << calls, handled >>
  /\ UNCHANGED syncVars

\* The computation behind the pending promise p is cancelled: p is rejected
\* with an abort error.
Abort(p) ==
  /\ StackEmpty
  /\ promises[p].state = "pending"
  /\ promises' = [promises EXCEPT ![p] = [state |-> "rejected", value |-> AbortError]]
  /\ jobs' = jobs \o JobsFor(reactions[p], "rejected", AbortError)
  /\ reactions' = [reactions EXCEPT ![p] = << >>]
  /\ UNCHANGED << calls, handled >>
  /\ UNCHANGED syncVars

\* ---------------------------------------------------------------- tryCatch
\* Variant: only Error instances are caught, other causes reject the result.
AsyncCaughtOnlyErrors(c) == c.kind = "Error"

\* Variant: the await is not guarded by the try block at all.
AsyncCaughtNothing(c) == FALSE

\* catch (error) of the async function: no filter either.
AsyncCaught(c) == TRUE

\* Variant: a falsy resolved value is reported as a Failure.
tryCatchReturnTruthy(result) ==
  IF result \in {UNDEFINED, NULL} THEN Failure(result) ELSE Success(result)

\* Variant: a resolved value that is a Result already is passed through
\* instead of being wrapped again.
tryCatchReturnFlattens(result) ==
  IF "success" \in DOMAIN result THEN result ELSE Success(result)

\* return { data: result, error: null, success: true }
tryCatchReturn(result) == Success(result)

\* Variant: a cancellation is not reported as a failure.
tryCatchCatchSwallowsAbort(error) ==
  IF error = AbortError THEN Success(UNDEFINED) ELSE Failure(error)

\* Variant: error: error.message for Error instances.
tryCatchCatchMessage(error) ==
  [data |-> NULL,
   error |-> IF error.kind = "Error" THEN [kind |-> "string", v |-> error.message] ELSE error,
   success |-> FALSE]

\* return { data: null, error: error as E, success: false }
tryCatchCatch(error) == Failure(error)

\* What the async function does to its returned promise when it is resumed
\* from `await promise`: a return resolves it, an uncaught throw rejects it.
tryCatchResume(kind, value) ==
  IF kind = "fulfilled"
    THEN [state |-> "fulfilled", value |-> tryCatchReturn(value)]
    ELSE IF AsyncCaught(value)
      THEN [state |-> "fulfilled", value |-> tryCatchCatch(value)]
      ELSE [state |-> "rejected", value |-> value]

\* Variant: the await is missing, the body goes on at once with the promise
\* object itself as its result.
AwaitReactionNoWait(i, p) == << Job(i, "fulfilled", PromiseArg(p)) >>

\* The microtasks `await promise` queues at once: the continuation of call i
\* when p is settled already, nothing while p is pending.
AwaitReaction(i, p) ==
  IF promises[p].state = "pending"
    THEN << >>
    ELSE << Job(i, promises[p].state, promises[p].value) >>

\* Variant: the handler is attached in a later task only, not during the call.
AwaitHandlesLater(h, p) == h

\* `await promise` attaches its handlers to p during the call: p is handled
\* from then on.
AwaitHandles(h, p) == [h EXCEPT ![p] = TRUE]

\* Variant: the call takes the value or cause out of a settled promise, as a
\* read of a one-shot channel does, and leaves undefined behind.
AwaitConsumes(ps, p) ==
  IF ps[p].state = "pending"
    THEN ps
    ELSE [ps EXCEPT ![p] = [state |-> @.state, value |-> UNDEFINED]]

\* What the call does to the promises: `await promise` only subscribes to the
\* passed promise, its state and its value or cause stay as they are.
AwaitLeaves(ps, p) == ps

\* Variant: a promise that is settled already is answered within the call, so
\* the call hands back a promise that is settled too.
ReturnedAtCallSettled(p) ==
  IF promises[p].state = "pending"
    THEN Pending
    ELSE tryCatchResume(promises[p].state, promises[p].value)

\* The promise an async function hands back when its body suspends at the
\* first await: it is pending, whatever the state of the awaited promise.
ReturnedAtCall(p) == Pending

\* tryCatch(p) is called: the body runs up to `await promise`, which registers
\* the continuation on p (or queues it when p is settled already), and the
\* call returns its pending promise.
TryCatchCall(i, p) ==
  /\ StackEmpty
  /\ calls[i].pc = "idle"
  /\ \A j \in Calls : j < i => calls[j].pc # "idle"
  /\ calls' = [calls EXCEPT ![i] =
                 [pc |-> "await", promise |-> p, arg |-> PromiseArg(p),
                  returned |-> ReturnedAtCall(p)]]
  /\ jobs' = jobs \o AwaitReaction(i, p)
  /\ reactions' = IF promises[p].state = "pending"
                    THEN [reactions EXCEPT ![p] = Append(@, i)]
                    ELSE reactions
  /\ handled' = AwaitHandles(handled, p)
  /\ promises' = AwaitLeaves(promises, p)
  /\ UNCHANGED syncVars

\* tryCatch(f) is called with a function, as the README's example does.
\* `await f` does not call f: f is no thenable, so the await wraps it in a
\* promise already fulfilled with f itself and queues the continuation.
TryCatchCallFactory(i, f) ==
  /\ StackEmpty
  /\ calls[i].pc = "idle"
  /\ \A j \in Calls : j < i => calls[j].pc # "idle"
  /\ calls' = [calls EXCEPT ![i] =
                 [pc |-> "await", promise |-> "p", arg |-> f, returned |-> Pending]]
  /\ jobs' = Append(jobs, Job(i, "fulfilled", f))
  /\ UNCHANGED << promises, reactions, handled >>
  /\ UNCHANGED syncVars

\* tryCatch(r) is called with r the promise that the earlier call i returned,
\* as in tryCatch(tryCatch(p)): the await subscribes to r while r is pending
\* and queues the continuation at once when r is settled already.
TryCatchCallWrapped(j, i) ==
  /\ StackEmpty
  /\ i < j
  /\ calls[j].pc = "idle"
  /\ \A k \in Calls : k < j => calls[k].pc # "idle"
  /\ calls' = [calls EXCEPT ![j] =
                 [pc |-> "await", promise |-> "p", arg |-> ReturnedArg(i), returned |-> Pending]]
  /\ jobs' = IF calls[i].returned.state = "pending"
               THEN jobs
               ELSE Append(jobs, Job(j, calls[i].returned.state, calls[i].returned.value))
  /\ UNCHANGED << promises, reactions, handled >>
  /\ UNCHANGED syncVars

\* The suspended calls that await the promise returned by call i, in the
\* order they subscribed, which is the order the calls were made in.
Waiters(i) ==
  LET Awaits(j) == calls[j].pc = "await" /\ calls[j].arg = ReturnedArg(i)
  IN SelectSeq([j \in 1..MaxCalls |-> j], Awaits)

\* Settling the promise a call returned queues the continuations of the
\* calls that await it.
WaiterJobs(job) ==
  JobsFor(Waiters(job.call),
          tryCatchResume(job.kind, job.value).state,
          tryCatchResume(job.kind, job.value).value)

\* Variant: the outcome is kept in a variable of the module that all calls
\* share, so every call still suspended is completed with it as well.
ResumedShared(job) ==
  [i \in Calls |->
     IF i = job.call \/ calls[i].pc = "await"
       THEN [calls[i] EXCEPT !.pc = "done",
                             !.returned = tryCatchResume(job.kind, job.value)]
       ELSE calls[i]]

\* The suspended call of the job is resumed after its await and runs to a
\* return statement, which settles the promise the call returned.
Resumed(job) ==
  [calls EXCEPT ![job.call] =
     [@ EXCEPT !.pc = "done", !.returned = tryCatchResume(job.kind, job.value)]]

\* The head microtask is a fulfil reaction: `await promise` yields the value.
ResumeFulfilled ==
  /\ StackEmpty
  /\ jobs # << >>
  /\ Head(jobs).kind = "fulfilled"
  /\ calls' = Resumed(Head(jobs))
  /\ jobs' = Tail(jobs) \o WaiterJobs(Head(jobs))
  /\ UNCHANGED << promises, reactions, handled >>
  /\ UNCHANGED syncVars

\* The head microtask is a reject reaction: `await promise` throws the cause
\* inside the try block.
ResumeRejected ==
  /\ StackEmpty
  /\ jobs # << >>
  /\ Head(jobs).kind = "rejected"
  /\ calls' = Resumed(Head(jobs))
  /\ jobs' = Tail(jobs) \o WaiterJobs(Head(jobs))
  /\ UNCHANGED << promises, reactions, handled >>
  /\ UNCHANGED syncVars

\* ------------------------------------------------------------------- Next
Next ==
  \/ \E cb \in Callbacks \cup PromiseCallbacks : SyncCall(cb)
  \/ SyncInvoke
  \/ SyncReturn
  \/ SyncCatch
  \/ SyncDiscard
  \/ \E i \in Calls, p \in Promises : TryCatchCall(i, p)
  \/ \E p \in Promises, v \in Values : Resolve(p, v)
  \/ \E p \in Promises, c \in Values : Reject(p, c)
  \/ \E p \in Promises : Abort(p)
  \/ ResumeFulfilled
  \/ ResumeRejected

Spec == Init /\ [][Next]_vars

\* tryCatchSync on callbacks with and without side effects, next to direct
\* invocations of the same callbacks.
NextEffects ==
  \/ \E cb \in Callbacks \cup WritingCallbacks : SyncCall(cb)
  \/ SyncInvoke
  \/ SyncReturn
  \/ SyncCatch
  \/ SyncDiscard
  \/ \E cb \in WritingCallbacks : DirectCall(cb)

SpecEffects == Init /\ [][NextEffects]_vars

\* A caller of tryCatchSync that also assigns to the Results it gets.
NextMutation ==
  \/ \E cb \in Callbacks : SyncCall(cb)
  \/ SyncInvoke
  \/ SyncReturn
  \/ SyncCatch
  \/ \E w \in Writes : CallerWrite(w[1], w[2])
  \/ SyncDiscard

SpecMutation == Init /\ [][NextMutation]_vars

\* The async wrapper alone, under a fair event loop: a queued microtask is
\* run once the stack is empty.
NextAsync ==
  \/ \E i \in Calls, p \in Promises : TryCatchCall(i, p)
  \/ \E p \in Promises, v \in Values : Resolve(p, v)
  \/ \E p \in Promises, c \in Values : Reject(p, c)
  \/ \E p \in Promises : Abort(p)
  \/ ResumeFulfilled
  \/ ResumeRejected

FairSpec ==
  /\ Init
  /\ [][NextAsync]_vars
  /\ WF_vars(ResumeFulfilled)
  /\ WF_vars(ResumeRejected)

\* The caller of README.md: tryCatch is passed promises and async functions.
NextFactory ==
  \/ \E i \in Calls, p \in Promises : TryCatchCall(i, p)
  \/ \E i \in Calls, f \in Factories : TryCatchCallFactory(i, f)
  \/ \E p \in Promises, v \in Values : Resolve(p, v)
  \/ \E p \in Promises, c \in Values : Reject(p, c)
  \/ \E p \in Promises : Abort(p)
  \/ ResumeFulfilled
  \/ ResumeRejected

SpecFactory == Init /\ [][NextFactory]_vars

\* Wrappers around wrappers: tryCatchSync(() => tryCatchSync(f)) next to
\* plain callbacks, and tryCatch passed the promise of an earlier tryCatch
\* call next to plain promises.
NextNested ==
  \/ \E cb \in Callbacks \cup NestedCallbacks : SyncCall(cb)
  \/ SyncInvoke
  \/ SyncReturn
  \/ SyncCatch
  \/ \E i \in Calls, p \in Promises : TryCatchCall(i, p)
  \/ \E j \in Calls, i \in Calls : TryCatchCallWrapped(j, i)
  \/ \E p \in Promises, v \in Values : Resolve(p, v)
  \/ \E p \in Promises, c \in Values : Reject(p, c)
  \/ ResumeFulfilled
  \/ ResumeRejected

SpecNested == Init /\ [][NextNested]_vars

\* ------------------------------------------------- dist/cjs/tryCatch.js
\* The compiled CommonJS build, translated from its own text. It runs on the
\* same host: callbacks, promises and the microtask queue are as above.

\* catch (error) of the compiled tryCatchSync.
CjsSyncCaught(c) == TRUE

\* return { data: result, error: null, success: true }
CjsTryCatchSyncReturn(result) == [data |-> result, error |-> NULL, success |-> TRUE]

\* return { data: null, error: error, success: false }
CjsTryCatchSyncCatch(error) == [data |-> NULL, error |-> error, success |-> FALSE]

\* Where control goes once callback() has completed.
CjsAfterInvoke(comp) == IF comp.type = "normal" THEN "atReturn" ELSE "atCatch"

\* const tryCatchSync = (callback) => { try {
CjsSyncCall(cb) ==
  /\ syncPc = "idle"
  /\ syncPc' = "inTry"
  /\ callback' = cb
  /\ completion' = NoCompletion
  /\ syncOutcome' = NoOutcome
  /\ invocations' = 0
  /\ heapAtCall' = heap
  /\ UNCHANGED heap
  /\ UNCHANGED asyncVars

\* const result = callback();
CjsSyncInvoke ==
  /\ syncPc = "inTry"
  /\ completion' = Invoke(callback)
  /\ invocations' = invocations + 1
  /\ syncPc' = CjsAfterInvoke(Invoke(callback))
  /\ heap' = EffectOf(callback, heap)
  /\ UNCHANGED << callback, syncOutcome, heapAtCall >>
  /\ UNCHANGED asyncVars

\* The return statement of the try block.
CjsSyncReturn ==
  /\ syncPc = "atReturn"
  /\ syncOutcome' = [kind |-> "return", value |-> CjsTryCatchSyncReturn(completion.value)]
  /\ syncPc' = "returned"
  /\ UNCHANGED << callback, completion, invocations, heap, heapAtCall >>
  /\ UNCHANGED asyncVars

\* The catch clause and its return statement.
CjsSyncCatch ==
  /\ syncPc = "atCatch"
  /\ IF CjsSyncCaught(completion.value)
       THEN /\ syncOutcome' = [kind |-> "return", value |-> CjsTryCatchSyncCatch(completion.value)]
            /\ syncPc' = "returned"
       ELSE /\ syncOutcome' = [kind |-> "throw", value |-> completion.value]
            /\ syncPc' = "threw"
  /\ UNCHANGED << callback, completion, invocations, heap, heapAtCall >>
  /\ UNCHANGED asyncVars

\* catch (error) of the compiled tryCatch.
CjsAsyncCaught(c) == TRUE

\* return { data: result, error: null, success: true }
CjsTryCatchReturn(result) == [data |-> result, error |-> NULL, success |-> TRUE]

\* Variant: a build made from a source older than the success flag.
CjsTryCatchCatchStale(error) == [data |-> NULL, error |-> error]

\* return { data: null, error: error, success: false }
CjsTryCatchCatch(error) == [data |-> NULL, error |-> error, success |-> FALSE]

\* The compiled function is still a native async function: resumed from
\* `await promise`, a return resolves its promise, an uncaught throw rejects it.
CjsTryCatchResume(kind, value) ==
  IF kind = "fulfilled"
    THEN [state |-> "fulfilled", value |-> CjsTryCatchReturn(value)]
    ELSE IF CjsAsyncCaught(value)
      THEN [state |-> "fulfilled", value |-> CjsTryCatchCatch(value)]
      ELSE [state |-> "rejected", value |-> value]

\* const tryCatch = async (promise) => { try { const result = await promise;
\* the await is the native one, not a generator emulation, so it subscribes
\* or queues the continuation exactly as the source's await does.
CjsTryCatchCall(i, p) ==
  /\ StackEmpty
  /\ calls[i].pc = "idle"
  /\ \A j \in Calls : j < i => calls[j].pc # "idle"
  /\ calls' = [calls EXCEPT ![i] =
                 [pc |-> "await", promise |-> p, arg |-> PromiseArg(p), returned |-> Pending]]
  /\ jobs' = IF promises[p].state = "pending"
               THEN jobs
               ELSE Append(jobs, Job(i, promises[p].state, promises[p].value))
  /\ reactions' = IF promises[p].state = "pending"
                    THEN [reactions EXCEPT ![p] = Append(@, i)]
                    ELSE reactions
  /\ handled' = [handled EXCEPT ![p] = TRUE]
  /\ UNCHANGED promises
  /\ UNCHANGED syncVars

\* The suspended call of the job runs on to one of the two return statements.
CjsResumed(job) ==
  [calls EXCEPT ![job.call] =
     [@ EXCEPT !.pc = "done", !.returned = CjsTryCatchResume(job.kind, job.value)]]

\* The continuations of the calls awaiting the promise that gets settled.
CjsWaiterJobs(job) ==
  JobsFor(Waiters(job.call),
          CjsTryCatchResume(job.kind, job.value).state,
          CjsTryCatchResume(job.kind, job.value).value)

\* The head microtask is a fulfil reaction of a compiled call.
CjsResumeFulfilled ==
  /\ StackEmpty
  /\ jobs # << >>
  /\ Head(jobs).kind = "fulfilled"
  /\ calls' = CjsResumed(Head(jobs))
  /\ jobs' = Tail(jobs) \o CjsWaiterJobs(Head(jobs))
  /\ UNCHANGED << promises, reactions, handled >>
  /\ UNCHANGED syncVars

\* The head microtask is a reject reaction of a compiled call.
CjsResumeRejected ==
  /\ StackEmpty
  /\ jobs # << >>
  /\ Head(jobs).kind = "rejected"
  /\ calls' = CjsResumed(Head(jobs))
  /\ jobs' = Tail(jobs) \o CjsWaiterJobs(Head(jobs))
  /\ UNCHANGED << promises, reactions, handled >>
  /\ UNCHANGED syncVars

\* The program of Spec linked against the compiled build: the same callers
\* and the same promise events, the wrappers taken from dist/cjs.
NextCjs ==
  \/ \E cb \in Callbacks \cup PromiseCallbacks : CjsSyncCall(cb)
  \/ CjsSyncInvoke
  \/ CjsSyncReturn
  \/ CjsSyncCatch
  \/ SyncDiscard
  \/ \E i \in Calls, p \in Promises : CjsTryCatchCall(i, p)
  \/ \E p \in Promises, v \in Values : Resolve(p, v)
  \/ \E p \in Promises, c \in Values : Reject(p, c)
  \/ \E p \in Promises : Abort(p)
  \/ CjsResumeFulfilled
  \/ CjsResumeRejected

SpecCjs == Init /\ [][NextCjs]_vars

\* ================================================================= claims
\* A Result has exactly the three fields data, error and success.
IsResult(r) == DOMAIN r = {"data", "error", "success"} /\ r.success \in BOOLEAN

\* The tryCatch calls whose returned promise is fulfilled.
Fulfilled == { i \in Calls : calls[i].returned.state = "fulfilled" }

\* How the promise awaited by call i settled; for an argument that is no
\* promise, the await's own promise is fulfilled with the argument.
Inner(i) ==
  IF calls[i].arg.kind = "promise"
    THEN promises[calls[i].promise]
  ELSE IF calls[i].arg.kind = "returned"
    THEN calls[calls[i].arg.call].returned
    ELSE [state |-> "fulfilled", value |-> calls[i].arg]

\* Every Result produced so far, with whether the wrapped computation ended
\* normally and the value it returned, resolved with, threw or rejected with.
Produced ==
  (IF syncPc = "returned" /\ syncOutcome.kind = "return"
     THEN { [result |-> syncOutcome.value,
             normal |-> callback.outcome = "return",
             payload |-> callback.value] }
     ELSE {})
  \cup
  { [result |-> calls[i].returned.value,
     normal |-> Inner(i).state = "fulfilled",
     payload |-> Inner(i).value] : i \in Fulfilled }

\* C1: tryCatchSync never throws: whatever the callback raises, no exception
\* reaches the caller and the call returns a Result.
C1_SyncNeverThrows ==
  /\ syncPc # "threw"
  /\ syncOutcome.kind # "throw"
  /\ syncPc = "returned" => syncOutcome.kind = "return" /\ IsResult(syncOutcome.value)

\* A callback raised a string and the call has returned.
C1_Witness ==
  /\ syncPc = "returned"
  /\ callback = [outcome |-> "throw", value |-> [kind |-> "string", v |-> "bad"]]
  /\ syncOutcome.kind = "return"

\* C2: the promise returned by tryCatch is never rejected, whatever the passed
\* promise settles with; once the call has finished it is fulfilled with a Result.
C2_AsyncNeverRejects ==
  \A i \in Calls :
    /\ calls[i].returned.state \in {"pending", "fulfilled"}
    /\ calls[i].pc = "done" =>
         calls[i].returned.state = "fulfilled" /\ IsResult(calls[i].returned.value)

\* A call whose promise rejected with a non-Error cause has finished.
C2_Witness ==
  \E i \in Calls :
    /\ calls[i].pc = "done"
    /\ Inner(i) = [state |-> "rejected", value |-> [kind |-> "number", v |-> 42]]

\* C3: when the callback returns v, tryCatchSync returns exactly
\* {data: v, error: null, success: true}, data being v itself.
C3_SyncSuccessShape ==
  (syncPc = "returned" /\ callback.outcome = "return") =>
    syncOutcome = [kind |-> "return",
                   value |-> [data |-> callback.value, error |-> NULL, success |-> TRUE]]

\* A callback returned an object and the call has returned.
C3_Witness ==
  /\ syncPc = "returned"
  /\ callback = [outcome |-> "return", value |-> [kind |-> "object", ref |-> 1]]

\* C4: when the callback raises c, of any kind, tryCatchSync returns exactly
\* {data: null, error: c, success: false}, error being c itself.
C4_SyncFailureShape ==
  (syncPc \in {"returned", "threw"} /\ callback.outcome = "throw") =>
    syncOutcome = [kind |-> "return",
                   value |-> [data |-> NULL, error |-> callback.value, success |-> FALSE]]

\* A callback raised a plain object, not an Error, and the call has returned.
C4_Witness ==
  /\ syncPc = "returned"
  /\ callback = [outcome |-> "throw", value |-> [kind |-> "object", ref |-> 1]]

\* C5: when the passed promise resolves with v, the returned promise is
\* fulfilled with exactly {data: v, error: null, success: true}.
C5_AsyncSuccessShape ==
  \A i \in Calls :
    (calls[i].pc = "done" /\ Inner(i).state = "fulfilled") =>
      calls[i].returned =
        [state |-> "fulfilled",
         value |-> [data |-> Inner(i).value, error |-> NULL, success |-> TRUE]]

\* A call whose promise resolved with undefined has finished.
C5_Witness ==
  \E i \in Calls :
    /\ calls[i].pc = "done"
    /\ Inner(i) = [state |-> "fulfilled", value |-> UNDEFINED]

\* C6: when the passed promise rejects with c, of any kind, the returned
\* promise is fulfilled with exactly {data: null, error: c, success: false}.
C6_AsyncFailureShape ==
  \A i \in Calls :
    (calls[i].pc = "done" /\ Inner(i).state = "rejected") =>
      calls[i].returned =
        [state |-> "fulfilled",
         value |-> [data |-> NULL, error |-> Inner(i).value, success |-> FALSE]]

\* A call whose promise rejected with an Error instance has finished.
C6_Witness ==
  \E i \in Calls :
    /\ calls[i].pc = "done"
    /\ Inner(i) = [state |-> "rejected", value |-> [kind |-> "Error", message |-> "net down"]]

\* C7 as stated: in every produced Result exactly one of data and error is
\* non-null, and success is true exactly when data is the populated field and
\* false exactly when error is.
C7_ExactlyOnePopulated ==
  \A x \in Produced :
    /\ (x.result.data # NULL) # (x.result.error # NULL)
    /\ x.result.success <=> x.result.data # NULL
    /\ ~x.result.success <=> x.result.error # NULL

\* C7 amended: data and error are never both non-null; a Success has error
\* null and a Failure has data null; both are null exactly when the value the
\* computation returned, resolved with, raised or rejected with is null itself;
\* for every other value exactly one is non-null and success tells which.
C7_AtMostOnePopulated ==
  \A x \in Produced :
    /\ ~(x.result.data # NULL /\ x.result.error # NULL)
    /\ x.result.success => x.result.error = NULL
    /\ ~x.result.success => x.result.data = NULL
    /\ (x.result.data = NULL /\ x.result.error = NULL) <=> x.payload = NULL
    /\ x.payload # NULL =>
         /\ x.result.success <=> x.result.data # NULL
         /\ ~x.result.success <=> x.result.error # NULL

\* A promise rejected with null and a callback that returned a number have
\* both been turned into Results.
C7_Witness ==
  /\ syncPc = "returned"
  /\ callback = [outcome |-> "return", value |-> [kind |-> "number", v |-> 42]]
  /\ \E i \in Fulfilled : Inner(i) = [state |-> "rejected", value |-> NULL]

\* C8: in every produced Result success false implies data null, success true
\* implies error null, and success is true exactly when the wrapped
\* computation returned or resolved, false exactly when it raised or rejected.
C8_SuccessAgreesWithOutcome ==
  \A x \in Produced :
    /\ x.result.success = FALSE => x.result.data = NULL
    /\ x.result.success = TRUE => x.result.error = NULL
    /\ x.result.success = x.normal

\* A callback that returned null and a promise that rejected with undefined
\* have both been turned into Results.
C8_Witness ==
  /\ syncPc = "returned"
  /\ callback = [outcome |-> "return", value |-> NULL]
  /\ \E i \in Fulfilled : Inner(i) = [state |-> "rejected", value |-> UNDEFINED]

\* C9: a callback that returns undefined or null without raising yields
\* success true, error null and data equal to the returned value: undefined
\* stays undefined and is not replaced by null.
C9_EmptyReturnIsSuccess ==
  (syncPc = "returned" /\ callback.outcome = "return"
     /\ callback.value \in {UNDEFINED, NULL}) =>
    /\ syncOutcome.kind = "return"
    /\ syncOutcome.value.success = TRUE
    /\ syncOutcome.value.error = NULL
    /\ syncOutcome.value.data = callback.value
    /\ callback.value = UNDEFINED => syncOutcome.value.data # NULL

\* A callback returned undefined and the call has returned.
C9_Witness ==
  /\ syncPc = "returned"
  /\ callback = [outcome |-> "return", value |-> UNDEFINED]

\* The callback has been invoked exactly once by every call that got past
\* the call expression, and not at all before it.
InvokedOnce ==
  /\ invocations <= 1
  /\ syncPc \in {"idle", "inTry"} => invocations = 0
  /\ syncPc \in {"atReturn", "atCatch", "returned", "threw"} => invocations = 1

\* C10: every call of tryCatchSync invokes its callback exactly once, on the
\* success path and on the failure path, never retries after a raise, and
\* never invokes it after having returned.
C10_CallbackInvokedOnce ==
  /\ []InvokedOnce
  /\ [][(syncPc \in {"returned", "threw"}) => (invocations' <= invocations)]_vars

\* A callback raised an Error and the call has returned after one invocation.
C10_Witness ==
  /\ syncPc = "returned"
  /\ callback = [outcome |-> "throw", value |-> [kind |-> "Error", message |-> "net down"]]
  /\ invocations = 1

\* The Result the README's example expects for an async function f.
ReadmeResult(f) ==
  IF f.body = "throws"
    THEN [data |-> NULL,
          error |-> [kind |-> "Error", message |-> "Asynchronous operation failed"],
          success |-> FALSE]
    ELSE [data |-> [kind |-> "string", v |-> "Asynchronous success!"],
          error |-> NULL,
          success |-> TRUE]

\* C11: when tryCatch is called with an async function, the function's body
\* is run and the awaited Result is the Failure with the thrown Error when the
\* body throws, the Success with the returned string when it returns.
C11_FactoryIsRun ==
  \A i \in Calls :
    (calls[i].pc = "done" /\ calls[i].arg.kind = "function") =>
      calls[i].returned = [state |-> "fulfilled", value |-> ReadmeResult(calls[i].arg)]

\* C12: the promise returned by tryCatch is never settled before the wrapped
\* promise has settled: while the wrapped promise is pending the call stays
\* suspended and its returned promise pending, however long that lasts.
C12_PendingWhileInnerPending ==
  \A i \in Calls :
    (calls[i].pc # "idle" /\ Inner(i).state = "pending") =>
      calls[i].pc = "await" /\ calls[i].returned = Pending

\* One call has finished while another still waits for its pending promise.
C12_Witness ==
  \E i, j \in Calls :
    /\ calls[i].pc = "await"
    /\ calls[i].arg.kind = "promise"
    /\ promises[calls[i].promise].state = "pending"
    /\ calls[j].pc = "done"

\* C13: under a fair event loop, once the promise passed to tryCatch has
\* settled the returned promise eventually becomes fulfilled with a Result,
\* and once fulfilled its value never changes.
C13_EventuallyFulfilledOnce ==
  /\ \A i \in Calls :
       (calls[i].pc = "await" /\ Inner(i).state # "pending")
         ~> (calls[i].returned.state = "fulfilled" /\ IsResult(calls[i].returned.value))
  /\ [][\A i \in Calls :
          calls[i].returned.state = "fulfilled" => calls'[i].returned = calls[i].returned]_vars

\* Two calls on the same promise, which resolved with a string, have both
\* been fulfilled.
C13_Witness ==
  /\ \A i \in {1, 2} : calls[i].pc = "done" /\ calls[i].promise = "q"
                          /\ calls[i].returned.state = "fulfilled"
  /\ promises["q"] = [state |-> "fulfilled", value |-> [kind |-> "string", v |-> "bad"]]

\* A tryCatchSync frame is on the stack.
InSyncCall == syncPc \in {"inTry", "atReturn", "atCatch"}

\* C14: tryCatchSync computes its Result synchronously: the callback is
\* invoked, from start to finish, after the call and before the return; what
\* is returned is a Result, not a pending computation; and no other task
\* runs between the call and the return.
C14_SyncIsSynchronous ==
  /\ [](syncPc = "returned" =>
          /\ syncOutcome.kind = "return"
          /\ IsResult(syncOutcome.value)
          /\ completion.type # "none")
  /\ [][(invocations' > invocations) =>
          (syncPc = "inTry" /\ syncPc' \in {"atReturn", "atCatch"})]_vars
  /\ [][(InSyncCall \/ InSyncCall') => UNCHANGED asyncVars]_vars

\* tryCatchSync has returned while the continuation of a tryCatch call was
\* waiting in the microtask queue.
C14_Witness ==
  /\ syncPc = "returned"
  /\ callback = [outcome |-> "return", value |-> [kind |-> "string", v |-> "bad"]]
  /\ jobs # << >>

\* C15: the calls share no state: with several tryCatch calls in flight, in
\* every order of settlement, each returned promise is fulfilled with the
\* Result of its own wrapped promise, never with the outcome or payload of
\* another call.
C15_OwnResultOnly ==
  /\ \A i \in Fulfilled :
       LET r == calls[i].returned.value IN
         /\ r.success = (Inner(i).state = "fulfilled")
         /\ (IF r.success THEN r.data ELSE r.error) = Inner(i).value
         /\ (IF r.success THEN r.error ELSE r.data) = NULL
  /\ \A i, j \in Fulfilled :
       Inner(i) # Inner(j) => calls[i].returned # calls[j].returned

\* Two calls on distinct promises, one resolved with a number and the other
\* rejected with an object, have both been fulfilled.
C15_Witness ==
  /\ calls[1].pc = "done" /\ calls[1].promise = "p"
  /\ calls[2].pc = "done" /\ calls[2].promise = "q"
  /\ promises["p"] = [state |-> "fulfilled", value |-> [kind |-> "number", v |-> 42]]
  /\ promises["q"] = [state |-> "rejected", value |-> [kind |-> "object", ref |-> 1]]

\* C16: a cancellation is not suppressed: when it rejects the wrapped promise
\* with an abort error, the returned promise is fulfilled with the Failure
\* {data: null, error: that abort error, success: false}.
C16_CancellationIsFailure ==
  \A i \in Calls :
    (calls[i].pc = "done" /\ Inner(i) = [state |-> "rejected", value |-> AbortError]) =>
      calls[i].returned =
        [state |-> "fulfilled",
         value |-> [data |-> NULL,
                    error |-> [kind |-> "Error", name |-> "AbortError", message |-> "aborted"],
                    success |-> FALSE]]

\* A call whose promise was cancelled has finished.
C16_Witness ==
  \E i \in Calls :
    /\ calls[i].pc = "done"
    /\ calls[i].arg.kind = "promise"
    /\ promises[calls[i].promise].value = AbortError

\* The calls registered as reactions of promise p.
Registered(p) == { reactions[p][k] : k \in 1..Len(reactions[p]) }

\* C17: tryCatch attaches its handler to the promise it is given during the
\* call itself: once the call has returned, the promise is handled, whether
\* it was rejected before the call, rejects later or is still pending, so its
\* rejection is never an unhandled one.
C17_HandlerAttachedDuringCall ==
  \A i \in Calls :
    (calls[i].pc # "idle" /\ calls[i].arg.kind = "promise") =>
      /\ handled[calls[i].promise]
      /\ promises[calls[i].promise].state = "pending" => i \in Registered(calls[i].promise)

\* tryCatch has just returned for a promise that had been rejected before
\* the call; the other promise was never passed and is rejected unhandled.
C17_Witness ==
  /\ calls[1].pc = "await" /\ calls[1].promise = "p"
  /\ promises["p"].state = "rejected"
  /\ jobs = << [call |-> 1, kind |-> "rejected", value |-> promises["p"].value] >>
  /\ handled["p"]
  /\ promises["q"].state = "rejected" /\ ~handled["q"]

\* C18: a produced Result is immutable: once the wrapper has returned it, its
\* three fields keep their values whatever the library or the caller does.
C18_ResultImmutable ==
  [][(syncPc = "returned" /\ syncPc' = "returned") =>
       syncOutcome'.value = syncOutcome.value]_vars

\* C19: tryCatchSync adds no side effect to those of its callback: when it
\* returns, the program's state is the state one direct invocation of the
\* callback leaves, the writes a callback made before raising included, and
\* no step of the wrapper other than callback() changes it.
C19_NoAddedSideEffect ==
  /\ [](syncPc = "returned" => heap = EffectOf(callback, heapAtCall))
  /\ [](syncPc = "returned" /\ "writes" \in DOMAIN callback =>
          /\ "before" \in heap
          /\ callback.outcome = "return" => "after" \in heap
          /\ "log" \notin heap)
  /\ [][(heap' # heap) => (syncPc = "inTry" \/ syncPc = "idle")]_vars

\* A callback wrote to the program's state and then raised, and the call
\* has returned with the write in place.
C19_Witness ==
  /\ syncPc = "returned"
  /\ "writes" \in DOMAIN callback
  /\ callback.outcome = "throw"
  /\ heapAtCall = {}
  /\ heap = {"before"}

\* C20: tryCatchSync does not await what its callback returns: a returned
\* promise, pending, rejected already or rejected later, comes back as
\* {data: that promise, error: null, success: true}; its rejection never
\* turns the Result into a Failure, and the wrapper attaches no handler to it.
C20_ReturnedPromiseNotAwaited ==
  /\ [](syncPc = "returned" /\ callback.value.kind = "promise" =>
          syncOutcome = [kind |-> "return",
                         value |-> [data |-> callback.value, error |-> NULL, success |-> TRUE]])
  /\ [][(InSyncCall \/ InSyncCall') => (handled' = handled /\ reactions' = reactions)]_vars

\* tryCatchSync has returned the promise its callback returned; the promise
\* is rejected and has no handler.
C20_Witness ==
  /\ syncPc = "returned"
  /\ callback = [outcome |-> "return", value |-> [kind |-> "promise", ref |-> "q"]]
  /\ promises["q"].state = "rejected"
  /\ ~handled["q"]

\* C21: tryCatch always delivers its Result asynchronously. The step that
\* makes the call leaves the returned promise pending, also when the passed
\* promise was fulfilled or rejected before the call; the returned promise
\* stays pending as long as the call is suspended; and it is settled only by
\* the call's own microtask, which runs with an empty stack, that is after
\* all the code the caller runs synchronously after the call.
C21_DeliveredAsynchronously ==
  /\ [](\A i \in Calls : calls[i].pc = "await" => calls[i].returned = Pending)
  /\ [][\A i \in Calls :
          (calls[i].pc = "idle" /\ calls'[i].pc # "idle")
            => (calls'[i].pc = "await" /\ calls'[i].returned = Pending)]_vars
  /\ [][\A i \in Calls :
          (calls[i].returned = Pending /\ calls'[i].returned # Pending)
            => /\ StackEmpty
               /\ calls[i].pc = "await"
               /\ jobs # << >>
               /\ Head(jobs).call = i
               /\ jobs' = Tail(jobs)]_vars

\* Call 2 was passed a promise fulfilled before the call; the caller has since
\* run a whole tryCatchSync call, and the Result of call 2 is still to come.
C21_Witness ==
  /\ calls[2].pc = "await"
  /\ calls[2].returned = Pending
  /\ promises[calls[2].promise].state = "fulfilled"
  /\ \E k \in 1..Len(jobs) : jobs[k].call = 2 /\ jobs[k].kind = "fulfilled"
  /\ syncPc = "returned"

\* C22: tryCatch leaves the wrapped promise unchanged. No step of a tryCatch
\* call, neither the call nor its resumption, changes the state or the value
\* of any promise, and a settled promise keeps its settlement for good; every
\* consumer of a promise that is still to be served is served the promise's
\* own settlement, also when other calls were passed that promise before; and
\* two calls passed the same promise are fulfilled with equal Results: the
\* same success flag and the identical payload.
C22_PromiseUnchanged ==
  /\ [][(calls' # calls) => (promises' = promises)]_vars
  /\ [][\A p \in Promises :
          (promises[p].state # "pending") => (promises'[p] = promises[p])]_vars
  /\ [](\A k \in 1..Len(jobs) :
          calls[jobs[k].call].arg.kind = "promise"
            => /\ jobs[k].kind = promises[calls[jobs[k].call].promise].state
               /\ jobs[k].value = promises[calls[jobs[k].call].promise].value)
  /\ [](\A i, j \in Fulfilled :
          (calls[i].arg = calls[j].arg)
            => /\ calls[i].returned.value.success = calls[j].returned.value.success
               /\ calls[i].returned.value.data = calls[j].returned.value.data
               /\ calls[i].returned.value.error = calls[j].returned.value.error)

\* The promise p, rejected with an object, was passed to tryCatch twice: the
\* first call has its Result, the second is still to be served, and p is as
\* it was rejected.
C22_Witness ==
  /\ calls[1].arg = PromiseArg("p")
  /\ calls[2].arg = PromiseArg("p")
  /\ promises["p"] = [state |-> "rejected", value |-> [kind |-> "object", ref |-> 1]]
  /\ calls[1].pc = "done"
  /\ calls[2].pc = "await"
  /\ jobs = << Job(2, "rejected", [kind |-> "object", ref |-> 1]) >>

\* The Result a wrapper owes for a computation that ended normally with v,
\* or that raised or rejected with v.
ResultOf(normal, v) ==
  IF normal
    THEN [data |-> v, error |-> NULL, success |-> TRUE]
    ELSE [data |-> NULL, error |-> v, success |-> FALSE]

\* C23: wrapping a wrapper always succeeds. A finished call
\* tryCatchSync(() => tryCatchSync(f)) has returned, not thrown, and its
\* Result is the Success whose data is the Result of f; a finished call
\* tryCatch(r), with r the promise returned by tryCatch(p), is fulfilled, not
\* rejected, with the Success whose data is the Result the inner call was
\* fulfilled with, which is the Result of p. The outer Result is no Failure,
\* whatever f throws and whatever p rejects with.
C23_WrappedWrapperSucceeds ==
  /\ (syncPc \in {"returned", "threw"} /\ "inner" \in DOMAIN callback)
       => /\ syncOutcome.kind = "return"
          /\ syncOutcome.value =
               ResultOf(TRUE, ResultOf(callback.inner.outcome = "return",
                                       callback.inner.value))
  /\ \A j \in Calls :
       (calls[j].pc = "done" /\ calls[j].arg.kind = "returned")
         => /\ calls[calls[j].arg.call].returned.state = "fulfilled"
            /\ calls[j].returned =
                 [state |-> "fulfilled",
                  value |-> ResultOf(TRUE, calls[calls[j].arg.call].returned.value)]
            /\ (calls[calls[j].arg.call].arg.kind = "promise")
                 => calls[j].returned.value.data =
                      ResultOf(promises[calls[calls[j].arg.call].promise].state = "fulfilled",
                               promises[calls[calls[j].arg.call].promise].value)

\* The outer tryCatchSync has returned for an f that throws an Error, and
\* call 2, passed the promise of call 1, is finished for a p that rejected.
C23_Witness ==
  /\ syncPc = "returned"
  /\ "inner" \in DOMAIN callback
  /\ callback.inner = [outcome |-> "throw", value |-> [kind |-> "Error", message |-> "net down"]]
  /\ calls[2].pc = "done"
  /\ calls[2].arg = ReturnedArg(1)
  /\ calls[1].arg.kind = "promise"
  /\ promises[calls[1].promise].state = "rejected"

\* C24: the CommonJS build behaves as the TypeScript source. The program
\* linked against dist/cjs and the program linked against src start in the
\* same state and, from every state, can take exactly the same steps: each
\* step of a compiled wrapper is the step the source's wrapper takes there,
\* to the same next state, and the other way round. So for every callback,
\* every promise and every outcome both produce the same Result, with the
\* same data, error and success, at the same point of the same sequence of
\* events.
C24_CjsBehavesAsSource ==
  /\ [][Next]_vars
  /\ [](~ ENABLED (Next /\ ~ NextCjs))

\* Both compiled wrappers have produced a Failure: tryCatchSync for a callback
\* that threw, tryCatch for a promise that was rejected.
C24_Witness ==
  /\ syncPc = "returned"
  /\ callback.outcome = "throw"
  /\ syncOutcome.value = [data |-> NULL, error |-> callback.value, success |-> FALSE]
  /\ calls[1].pc = "done"
  /\ promises[calls[1].promise].state = "rejected"
  /\ calls[1].returned.value =
       [data |-> NULL, error |-> promises[calls[1].promise].value, success |-> FALSE]

====
